---- MODULE Spec2Model ----
(***************************************************************************)
(* The request-processing pipeline of src/middleware.py: the seven custom  *)
(* interceptors registered by setup_middleware, the rate limiter's shared  *)
(* per-client window map, and the terminal handler they wrap.              *)
(*                                                                         *)
(* Every dispatch coroutine runs on one event loop, so the code between    *)
(* two awaits is one atomic step.  The only await of an interceptor is     *)
(* `await call_next(request)`: each interceptor therefore contributes a    *)
(* "before" step (up to the await) and an "after" step (from the await to  *)
(* its return), and the requests in flight interleave at those points.     *)
(***************************************************************************)
EXTENDS Integers, Sequences, FiniteSets, TLC

(* ------------------------------ bounds -------------------------------- *)
MaxReq == 3
MaxRichReq == 2
MaxInFlight == 2
MaxTime == 60
MaxLimit == 2
BurstLimit == 3

(* ------------------------- program constants -------------------------- *)
WINDOW == 60
MAX_CONTENT_LENGTH == 10485760
SLOW_REQUEST_THRESHOLD == 1
RATE_LIMIT_REQUESTS_PER_MINUTE == 100

\* granularity of the modelled clock: ages 0 and WINDOW/2 are inside the
\* window, age WINDOW is the first one outside it
TickStep == WINDOW \div 2

Slots == 1..MaxInFlight

(* ------------------------------ inputs -------------------------------- *)
\* request.client: None, or an address
NoClient == "<None>"
ClientAddrs == {NoClient, "10.0.0.1"}

\* a header value is a string; a string is a tuple of characters, the
\* decimal digits being the numbers 0..9 and 10 standing for a letter
NonDigit == 10
Ceiling == <<1, 0, 4, 8, 5, 7, 6, 0>>
AboveCeiling == <<1, 0, 4, 8, 5, 7, 6, 1>>
ContentLengthValues == {<<>>, <<0>>, Ceiling, AboveCeiling, <<NonDigit>>}
\* request.headers.get("content-length"): absent (None) or a string
NoHeader == [present |-> FALSE, value |-> <<>>]
ContentLengthHeaders ==
    {NoHeader} \cup {[present |-> TRUE, value |-> v] : v \in ContentLengthValues}

\* request.headers.get("authorization"): absent (None) or a credential
Bearer == <<"B", "e", "a", "r", "e", "r", " ", "t">>
AuthorizationHeaders == {NoHeader, [present |-> TRUE, value |-> Bearer]}

SuspiciousSets == SUBSET {"x-forwarded-for", "x-real-ip"}

Health == <<"/", "h", "e", "a", "l", "t", "h">>
BlogAll == <<"/", "b", "l", "o", "g", "/", "a", "l", "l">>
Paths == {Health, BlogAll}

\* what the route handler does with a request: it returns (headers_demo),
\* raises HTTPException (error_endpoint), or raises an exception that
\* nothing inside the chain handles
FaultMessages == {"db down", "division by zero"}
HandlerOutcomes ==
    {[kind |-> "return", message |-> ""], [kind |-> "HTTPException", message |-> ""]}
    \cup {[kind |-> "raise", message |-> e] : e \in FaultMessages}
NoExc == "<no exception>"
\* the time the handler takes (slow_endpoint sleeps)
HandlerDelays == {0, TickStep}

\* The workloads explored.
\*   "concurrent": up to MaxInFlight requests in flight at once, all of them
\*       plain (GET of one path, no content-length, no proxy header, a
\*       handler that returns at once);
\*   "sequential": one request in flight at a time, with every input above;
\*   "burst": plain requests one after the other against a rate limiter
\*       with requests_per_minute = BurstLimit, one request more than fits.
Workloads == {"concurrent", "sequential", "burst"}
LimitInputs(w) == IF w = "burst" THEN {BurstLimit} ELSE 1..MaxLimit
\* constructor arguments that are not a positive ceiling
NonPositiveLimits == {0, -1}
DebugInputs(w) == IF w = "sequential" THEN BOOLEAN ELSE {FALSE}

(* ------------------------------ settings ------------------------------ *)
PUBLIC_PATHS == << <<"/">>,
                   <<"/", "d", "o", "c", "s">>,
                   <<"/", "r", "e", "d", "o", "c">>,
                   <<"/", "o", "p", "e", "n", "a", "p", "i", ".", "j", "s", "o", "n">>,
                   <<"/", "s", "t", "a", "t", "i", "c">>,
                   <<"/", "t", "e", "m", "p", "l", "a", "t", "e", "s">>,
                   <<"/", "h", "e", "a", "l", "t", "h">> >>

CSP_POLICY(debug) ==
    IF debug
    THEN "default-src 'self'; script-src 'self' 'unsafe-inline' 'unsafe-eval' https://cdn.jsdelivr.net; style-src 'self' 'unsafe-inline' https://cdn.jsdelivr.net; img-src 'self' data: https://fastapi.tiangolo.com https://cdn.jsdelivr.net; font-src 'self' https://cdn.jsdelivr.net; connect-src 'self'; frame-ancestors 'none'; base-uri 'self'; form-action 'self'"
    ELSE "default-src 'self'; script-src 'self' 'unsafe-inline' https://cdn.jsdelivr.net; style-src 'self' 'unsafe-inline' https://cdn.jsdelivr.net; img-src 'self' data: https://fastapi.tiangolo.com https://cdn.jsdelivr.net; font-src 'self' https://cdn.jsdelivr.net; connect-src 'self'; frame-ancestors 'none'; base-uri 'self'; form-action 'self'"

(* --------------------------- pure functions --------------------------- *)
\* str.startswith
StartsWith(s, prefix) ==
    /\ Len(prefix) <= Len(s)
    /\ SubSeq(s, 1, Len(prefix)) = prefix

\* any(path.startswith(prefix) for prefix in public_paths)
IsPublic(path, public_paths) ==
    \E i \in 1..Len(public_paths) : StartsWith(path, public_paths[i])

\* int(s) succeeds on a non-empty string of decimal digits and raises
\* ValueError on the other strings modelled here
IntRaises(s) == Len(s) = 0 \/ \E i \in 1..Len(s) : s[i] \notin 0..9

RECURSIVE IntOf(_)
IntOf(s) == IF Len(s) = 0 THEN 0 ELSE 10 * IntOf(SubSeq(s, 1, Len(s) - 1)) + s[Len(s)]

\* bool(s) of a header value: None and "" are falsy
Truthy(h) == h.present /\ Len(h.value) > 0

\* mutant: a declared length equal to the ceiling is refused too
ExceedsCeilingInclusive(h) == Truthy(h) /\ IntOf(h.value) >= MAX_CONTENT_LENGTH

\* content_length and int(content_length) > settings.MAX_CONTENT_LENGTH,
\* for a value on which int() does not raise
ExceedsCeiling(h) == Truthy(h) /\ IntOf(h.value) > MAX_CONTENT_LENGTH

\* RateLimitingMiddleware.__init__:
\* requests_per_minute or settings.RATE_LIMIT_REQUESTS_PER_MINUTE
\* (None and 0 are falsy, every other integer is kept)
RateLimitingInit(arg) == IF arg = 0 THEN RATE_LIMIT_REQUESTS_PER_MINUTE ELSE arg

\* mutant: a request without client address is keyed by the missing value
ClientKeyRaw(client) == client

\* request.client.host if request.client else "unknown"
ClientKey(client) == IF client = NoClient THEN "unknown" ELSE client

\* mutant: nothing is pruned
PruneNothing(lst, current_time) == lst

\* mutant: an entry exactly WINDOW seconds old is kept
RECURSIVE PruneInclusive(_, _)
PruneInclusive(lst, current_time) ==
    IF lst = <<>> THEN <<>>
    ELSE IF current_time - Head(lst) <= WINDOW
         THEN <<Head(lst)>> \o PruneInclusive(Tail(lst), current_time)
         ELSE PruneInclusive(Tail(lst), current_time)

\* [req_time for req_time in lst if current_time - req_time < 60]
RECURSIVE Prune(_, _)
Prune(lst, current_time) ==
    IF lst = <<>> THEN <<>>
    ELSE IF current_time - Head(lst) < WINDOW
         THEN <<Head(lst)>> \o Prune(Tail(lst), current_time)
         ELSE Prune(Tail(lst), current_time)

\* mutant: the limit is compared with > instead of >=
LimitExceededOffByOne(live, limit) == Len(live) > limit

\* len(self.requests[client_ip]) >= self.requests_per_minute
LimitExceeded(live, limit) == Len(live) >= limit

\* mutant: the 429 is built but not returned, every request falls through
AdmittedAlways(old, known, current_time, limit) == TRUE

\* the decision of RateLimitingMiddleware.dispatch: the limit is checked
\* only for a key already in the dict
Admitted(old, known, current_time, limit) ==
    ~(known /\ LimitExceeded(Prune(old, current_time), limit))

\* mutant: the new timestamp is appended to a copy of the list and lost
RecordedWindowLost(old, known, current_time, limit) ==
    IF known THEN Prune(old, current_time) ELSE <<>>

\* mutant: the timestamp is appended before the limit is checked, so a
\* rejected request is recorded too
RecordedWindowAlways(old, known, current_time, limit) ==
    Append(IF known THEN Prune(old, current_time) ELSE <<>>, current_time)

\* self.requests[client_ip] when dispatch reaches its return or its await
RecordedWindow(old, known, current_time, limit) ==
    LET live == IF known THEN Prune(old, current_time) ELSE <<>>
    IN  IF known /\ LimitExceeded(live, limit)
        THEN live
        ELSE Append(live, current_time)

\* mutant: the dict is rebuilt with the one key on every assignment
StoreAlone(dict, key, lst) == (key :> lst)

\* self.requests[client_ip] = lst
Store(dict, key, lst) == (key :> lst) @@ dict

(* ------------------------- the interceptor chain ---------------------- *)
\* the custom interceptors in the order setup_middleware registers them
Registered == <<"Performance", "RequestValidation", "Security", "ErrorHandling",
                "Authentication", "RateLimiting", "Logging">>

\* mutant: a new interceptor goes behind those added before it
add_middleware_append(stack, m) == Append(stack, m)

\* app.add_middleware puts the new interceptor in front of those added
\* before it: the stack lists the outermost interceptor first
add_middleware(stack, m) == <<m>> \o stack

RECURSIVE BuildStack(_)
BuildStack(reg) ==
    IF reg = <<>> THEN <<>>
    ELSE add_middleware(BuildStack(SubSeq(reg, 1, Len(reg) - 1)), reg[Len(reg)])

Chain == BuildStack(Registered)
Depth == Len(Chain)
Index(m) == CHOOSE i \in 1..Depth : Chain[i] = m

(* ------------------------------ responses ----------------------------- *)
NoHeaders == [h \in {} |-> ""]
NoResponse == [status |-> 0, headers |-> NoHeaders, body |-> [none |-> "none"],
               producer |-> "nobody"]

\* JSONResponse(status_code=..., content=...)
JSONResponse(status_code, content, producer) ==
    [status |-> status_code, headers |-> NoHeaders, body |-> content,
     producer |-> producer]

\* mutant: setting a header resets the status to 200
SetHeaderResetsStatus(r, name, value) ==
    [r EXCEPT !.headers = (name :> value) @@ r.headers, !.status = 200]

\* response.headers[name] = value
SetHeader(r, name, value) ==
    [r EXCEPT !.headers = (name :> value) @@ r.headers]

\* the headers SecurityMiddleware.dispatch sets, in order
SecurityHeaders(debug) ==
    << <<"X-Content-Type-Options", "nosniff">>,
       <<"X-Frame-Options", "DENY">>,
       <<"X-XSS-Protection", "1; mode=block">>,
       <<"Strict-Transport-Security", "max-age=31536000; includeSubDomains">>,
       <<"Referrer-Policy", "strict-origin-when-cross-origin">>,
       <<"Content-Security-Policy", CSP_POLICY(debug)>> >>

RECURSIVE SetHeaders(_, _)
SetHeaders(r, pairs) ==
    IF pairs = <<>> THEN r
    ELSE SetHeaders(SetHeader(r, Head(pairs)[1], Head(pairs)[2]), Tail(pairs))

\* str(process_time) and f"{process_time:.4f}s" of a whole number of seconds
StrOfTime(t) == ToString(t) \o ".0"
FmtTime(t) == ToString(t) \o ".0000s"

\* mutant: the generator hands out the same token every time
UuidConstant(n) == "uuid-0"

\* str(uuid.uuid4()): the n-th token handed out, different from the others
Uuid(n) == "uuid-" \o ToString(n)
NoId == "Not set"

(* ------------------------------- state -------------------------------- *)
VARIABLES
    workload,             \* which requests the clients send (see Workloads)
    requests_per_minute,  \* RateLimitingMiddleware.requests_per_minute
    DEBUG,                \* settings.DEBUG
    requests,             \* RateLimitingMiddleware.requests: key -> list of times
    now,                  \* what time.time() returns
    issued,               \* number of requests received so far
    phase,                \* per slot: "idle", "in" (inbound), "out" (outbound)
    at,                   \* per slot: 0 the client, i the i-th interceptor, Depth+1 the handler
    req,                  \* per slot: the request's inputs read so far
    ctx,                  \* per slot: request.state and the coroutines' locals
    response,             \* per slot: the response travelling outward
    exc,                  \* per slot: the exception travelling outward
    trace,                \* per slot: the steps run for the request, in order
    ghost,                \* per slot: its rate-limit decision and the fault raised for it
    logged,               \* the log entries the last step emitted, in order
    rlLog,                \* the rate limiter's decisions, in order
    uuids                 \* the number of tokens uuid.uuid4() has handed out

vars == <<workload, requests_per_minute, DEBUG, requests, now, issued, phase, at, req, ctx,
          response, exc, trace, ghost, logged, rlLog, uuids>>

(* ------------------------------ initial state ------------------------- *)
NoRequest == [path |-> <<>>, authorization |-> NoHeader, content_length |-> NoHeader]
\* request_id: the local of LoggingMiddleware.dispatch; state_request_id:
\* request.state.request_id, which the handler reads
NoContext == [request_id |-> NoId, state_request_id |-> NoId, start_time |-> 0,
              perf_start |-> 0]
\* rl: the index in rlLog of the request's decision (0: none yet);
\* raised, raisedBy: the exception raised while processing it, and by whom
NoGhost == [rl |-> 0, raised |-> NoExc, raisedBy |-> "nobody"]

Init ==
    /\ workload \in Workloads
    /\ requests_per_minute \in {RateLimitingInit(arg) : arg \in LimitInputs(workload)}
    /\ DEBUG \in DebugInputs(workload)
    /\ requests = [k \in {} |-> <<>>]
    /\ now = 0
    /\ issued = 0
    /\ phase = [s \in Slots |-> "idle"]
    /\ at = [s \in Slots |-> 0]
    /\ req = [s \in Slots |-> NoRequest]
    /\ ctx = [s \in Slots |-> NoContext]
    /\ response = [s \in Slots |-> NoResponse]
    /\ exc = [s \in Slots |-> NoExc]
    /\ trace = [s \in Slots |-> <<>>]
    /\ ghost = [s \in Slots |-> NoGhost]
    /\ logged = <<>>
    /\ rlLog = <<>>
    /\ uuids = 0

(* ------------------------------- helpers ------------------------------ *)
\* the inputs the workload draws from
PathInputs == IF workload = "sequential" THEN Paths ELSE {Health}
ContentLengthInputs == IF workload = "sequential" THEN ContentLengthHeaders ELSE {NoHeader}
SuspiciousInputs == IF workload = "sequential" THEN SuspiciousSets ELSE {{}}
AuthInputs == IF workload = "sequential" THEN AuthorizationHeaders ELSE {NoHeader}
OutcomeInputs ==
    IF workload = "sequential" THEN HandlerOutcomes
    ELSE {[kind |-> "return", message |-> ""]}
DelayInputs == IF workload = "sequential" THEN HandlerDelays ELSE {0}
RequestCap ==
    IF workload = "burst" THEN BurstLimit + 1
    ELSE IF workload = "sequential" THEN MaxRichReq ELSE MaxReq
InFlight == {s \in Slots : phase[s] # "idle"}

\* slot s is inside interceptor m, going inward ("in") or outward ("out")
Running(s, m, dir) == phase[s] = dir /\ at[s] = Index(m)

Event(m, step) == <<m, step>>
LogEntry(level, event) == <<level, event>>

\* await call_next(request): control passes to the next element inward
CallNext(s, m) ==
    /\ at' = [at EXCEPT ![s] = at[s] + 1]
    /\ phase' = [phase EXCEPT ![s] = "in"]
    /\ trace' = [trace EXCEPT ![s] = Append(trace[s], Event(m, "before"))]

\* the interceptor returns or raises without having called onward
ShortCircuit(s, m) ==
    /\ at' = [at EXCEPT ![s] = at[s] - 1]
    /\ phase' = [phase EXCEPT ![s] = "out"]
    /\ trace' = [trace EXCEPT ![s] = Append(trace[s], Event(m, "before"))]

\* the interceptor returns or raises after call_next came back
Return(s, m, step) ==
    /\ at' = [at EXCEPT ![s] = at[s] - 1]
    /\ phase' = [phase EXCEPT ![s] = "out"]
    /\ trace' = [trace EXCEPT ![s] = Append(trace[s], Event(m, step))]

(* ------------------------------- actions ------------------------------ *)
\* a request arrives and enters the outermost interceptor; the slots being
\* interchangeable, it takes the first free one
Arrive(s) ==
    /\ phase[s] = "idle"
    /\ \A t \in Slots : t < s => phase[t] # "idle"
    /\ issued < RequestCap
    /\ workload # "concurrent" => InFlight = {}
    /\ issued' = issued + 1
    /\ phase' = [phase EXCEPT ![s] = "in"]
    /\ at' = [at EXCEPT ![s] = 1]
    /\ logged' = <<>>
    /\ UNCHANGED <<uuids, workload, ghost, requests_per_minute, DEBUG, requests, now, req, ctx, response,
                   exc, trace, rlLog>>

\* time passes while no request is being processed (an interceptor's step
\* takes no time at the clock's granularity; the handler's time is Terminal's)
Tick ==
    /\ InFlight = {}
    /\ now + TickStep <= MaxTime
    /\ now' = now + TickStep
    /\ UNCHANGED <<uuids, workload, requests_per_minute, DEBUG, requests, issued, phase, at, req,
                   ctx, response, exc, trace, ghost, logged, rlLog>>

\* LoggingMiddleware.dispatch up to `await call_next(request)`
LoggingBefore(s) ==
    /\ Running(s, "Logging", "in")
    /\ \E path \in PathInputs :
         req' = [req EXCEPT ![s].path = path]
    /\ LET request_id == Uuid(uuids + 1)
       IN  ctx' = [ctx EXCEPT ![s].request_id = request_id,
                              ![s].state_request_id = request_id,
                              ![s].start_time = now]
    /\ uuids' = uuids + 1
    /\ logged' = <<LogEntry("INFO", "Started")>>
    /\ CallNext(s, "Logging")
    /\ UNCHANGED <<workload, ghost, requests_per_minute, DEBUG, requests, now, issued, response,
                   exc, rlLog>>

\* LoggingMiddleware.dispatch from the await to its return or re-raise
LoggingAfter(s) ==
    /\ Running(s, "Logging", "out")
    /\ LET process_time == now - ctx[s].start_time
       IN  IF exc[s] = NoExc
           THEN /\ logged' = <<LogEntry("INFO", "Completed")>>
                /\ response' = [response EXCEPT ![s] =
                       SetHeader(SetHeader(response[s], "X-Request-ID", ctx[s].request_id),
                                 "X-Process-Time", StrOfTime(process_time))]
                /\ Return(s, "Logging", "after")
           ELSE /\ logged' = <<LogEntry("ERROR", "Failed")>>
                /\ response' = response
                /\ Return(s, "Logging", "except")
    /\ UNCHANGED <<uuids, workload, ghost, requests_per_minute, DEBUG, requests, now, issued, req, ctx,
                   exc, rlLog>>

\* RateLimitingMiddleware.dispatch up to its `return JSONResponse(429)` or
\* its `await call_next(request)`
RateLimitingBefore(s) ==
    /\ Running(s, "RateLimiting", "in")
    /\ \E client \in ClientAddrs :
         LET client_ip == ClientKey(client)
             current_time == now
             known == client_ip \in DOMAIN requests
             old == IF known THEN requests[client_ip] ELSE <<>>
             admit == Admitted(old, known, current_time, requests_per_minute)
         IN  /\ requests' = Store(requests, client_ip,
                                  RecordedWindow(old, known, current_time,
                                                 requests_per_minute))
             /\ rlLog' = Append(rlLog, [client |-> client, key |-> client_ip,
                                        time |-> current_time,
                                        admitted |-> admit,
                                        seen |-> Len(Prune(old, current_time))])
             /\ ghost' = [ghost EXCEPT ![s].rl = Len(rlLog) + 1]
             /\ IF admit
                THEN /\ CallNext(s, "RateLimiting")
                     /\ response' = response
                ELSE /\ ShortCircuit(s, "RateLimiting")
                     /\ response' = [response EXCEPT ![s] =
                            JSONResponse(429,
                                [detail |-> "Rate limit exceeded. Please try again later."],
                                "RateLimiting")]
    /\ logged' = <<>>
    /\ UNCHANGED <<uuids, workload, requests_per_minute, DEBUG, now, issued, req, ctx, exc>>

\* mutant: the timestamp of a request that ends in an error status or in
\* an exception is taken back
RateLimitingAfterRefund(s) ==
    /\ Running(s, "RateLimiting", "out")
    /\ Return(s, "RateLimiting", IF exc[s] = NoExc THEN "after" ELSE "raise")
    /\ logged' = <<>>
    /\ LET k == rlLog[ghost[s].rl].key
       IN  requests' =
               IF (exc[s] # NoExc \/ response[s].status >= 400) /\ requests[k] # <<>>
               THEN [requests EXCEPT ![k] = SubSeq(@, 1, Len(@) - 1)]
               ELSE requests
    /\ UNCHANGED <<uuids, workload, ghost, requests_per_minute, DEBUG, now, issued, req, ctx,
                   response, exc, rlLog>>

\* RateLimitingMiddleware.dispatch: `return await call_next(request)` resumes
RateLimitingAfter(s) ==
    /\ Running(s, "RateLimiting", "out")
    /\ Return(s, "RateLimiting", IF exc[s] = NoExc THEN "after" ELSE "raise")
    /\ logged' = <<>>
    /\ UNCHANGED <<uuids, workload, ghost, requests_per_minute, DEBUG, requests, now, issued, req, ctx,
                   response, exc, rlLog>>

\* AuthenticationMiddleware.dispatch up to either `await call_next(request)`
AuthenticationBefore(s) ==
    /\ Running(s, "Authentication", "in")
    /\ \E auth_header \in AuthInputs :
         /\ req' = [req EXCEPT ![s].authorization = auth_header]
         /\ IF IsPublic(req[s].path, PUBLIC_PATHS)
            THEN logged' = <<>>
            ELSE IF ~Truthy(auth_header)
                 THEN logged' = <<LogEntry("INFO", "No auth header")>>
                 ELSE logged' = <<>>
    /\ CallNext(s, "Authentication")
    /\ UNCHANGED <<uuids, workload, ghost, requests_per_minute, DEBUG, requests, now, issued, ctx,
                   response, exc, rlLog>>

\* AuthenticationMiddleware.dispatch: `return await call_next(request)` resumes
AuthenticationAfter(s) ==
    /\ Running(s, "Authentication", "out")
    /\ Return(s, "Authentication", IF exc[s] = NoExc THEN "after" ELSE "raise")
    /\ logged' = <<>>
    /\ UNCHANGED <<uuids, workload, ghost, requests_per_minute, DEBUG, requests, now, issued, req, ctx,
                   response, exc, rlLog>>

\* ErrorHandlingMiddleware.dispatch up to `await call_next(request)`
ErrorHandlingBefore(s) ==
    /\ Running(s, "ErrorHandling", "in")
    /\ CallNext(s, "ErrorHandling")
    /\ logged' = <<>>
    /\ UNCHANGED <<uuids, workload, ghost, requests_per_minute, DEBUG, requests, now, issued, req, ctx,
                   response, exc, rlLog>>

\* mutant: the exception's text is put in the body whatever DEBUG is
ErrorContentLeaky(e, debug) == [detail |-> "Internal server error", error |-> e]

\* the body of the 500 response of ErrorHandlingMiddleware
ErrorContent(e, debug) ==
    [detail |-> "Internal server error",
     error |-> IF debug THEN e ELSE "Something went wrong"]

\* ErrorHandlingMiddleware.dispatch from the await to its return
ErrorHandlingAfter(s) ==
    /\ Running(s, "ErrorHandling", "out")
    /\ IF exc[s] = NoExc
       THEN /\ logged' = <<>>
            /\ UNCHANGED <<response, exc>>
            /\ Return(s, "ErrorHandling", "after")
       ELSE /\ logged' = <<LogEntry("ERROR", "Unhandled error")>>
            /\ response' = [response EXCEPT ![s] =
                   JSONResponse(500, ErrorContent(exc[s], DEBUG), "ErrorHandling")]
            /\ exc' = [exc EXCEPT ![s] = NoExc]
            /\ Return(s, "ErrorHandling", "except")
    /\ UNCHANGED <<uuids, workload, ghost, requests_per_minute, DEBUG, requests, now, issued, req, ctx, rlLog>>

\* SecurityMiddleware.dispatch up to `await call_next(request)`
SecurityBefore(s) ==
    /\ Running(s, "Security", "in")
    /\ CallNext(s, "Security")
    /\ logged' = <<>>
    /\ UNCHANGED <<uuids, workload, ghost, requests_per_minute, DEBUG, requests, now, issued, req, ctx,
                   response, exc, rlLog>>

\* SecurityMiddleware.dispatch from the await to its return; an exception
\* raised by call_next leaves the coroutine at the await
SecurityAfter(s) ==
    /\ Running(s, "Security", "out")
    /\ IF exc[s] = NoExc
       THEN /\ response' = [response EXCEPT ![s] =
                   SetHeaders(response[s], SecurityHeaders(DEBUG))]
            /\ Return(s, "Security", "after")
       ELSE /\ response' = response
            /\ Return(s, "Security", "raise")
    /\ logged' = <<>>
    /\ UNCHANGED <<uuids, workload, ghost, requests_per_minute, DEBUG, requests, now, issued, req, ctx,
                   exc, rlLog>>

\* the warnings RequestValidationMiddleware logs, in the order of its list
SuspiciousWarnings(present) ==
    (IF "x-forwarded-for" \in present
     THEN <<LogEntry("WARNING", "Suspicious header detected: x-forwarded-for")>>
     ELSE <<>>)
    \o (IF "x-real-ip" \in present
        THEN <<LogEntry("WARNING", "Suspicious header detected: x-real-ip")>>
        ELSE <<>>)

\* RequestValidationMiddleware.dispatch up to its `return JSONResponse(413)`,
\* the ValueError of int(), or its `await call_next(request)`
RequestValidationBefore(s) ==
    /\ Running(s, "RequestValidation", "in")
    /\ \E content_length \in ContentLengthInputs, suspicious \in SuspiciousInputs :
         /\ req' = [req EXCEPT ![s].content_length = content_length]
         /\ IF Truthy(content_length) /\ IntRaises(content_length.value)
            THEN /\ exc' = [exc EXCEPT ![s] = "invalid literal for int() with base 10"]
                 /\ ghost' = [ghost EXCEPT ![s].raised = "invalid literal for int() with base 10",
                                           ![s].raisedBy = "RequestValidation"]
                 /\ logged' = <<>>
                 /\ UNCHANGED <<response>>
                 /\ ShortCircuit(s, "RequestValidation")
            ELSE IF ExceedsCeiling(content_length)
                 THEN /\ response' = [response EXCEPT ![s] =
                             JSONResponse(413, [detail |-> "Request too large"],
                                          "RequestValidation")]
                      /\ logged' = <<>>
                      /\ UNCHANGED <<exc, ghost>>
                      /\ ShortCircuit(s, "RequestValidation")
                 ELSE /\ logged' = SuspiciousWarnings(suspicious)
                      /\ UNCHANGED <<response, exc, ghost>>
                      /\ CallNext(s, "RequestValidation")
    /\ UNCHANGED <<uuids, workload, requests_per_minute, DEBUG, requests, now, issued, ctx, rlLog>>

\* RequestValidationMiddleware.dispatch: `return await call_next(request)` resumes
RequestValidationAfter(s) ==
    /\ Running(s, "RequestValidation", "out")
    /\ Return(s, "RequestValidation", IF exc[s] = NoExc THEN "after" ELSE "raise")
    /\ logged' = <<>>
    /\ UNCHANGED <<uuids, workload, ghost, requests_per_minute, DEBUG, requests, now, issued, req, ctx,
                   response, exc, rlLog>>

\* PerformanceMiddleware.dispatch up to `await call_next(request)`
PerformanceBefore(s) ==
    /\ Running(s, "Performance", "in")
    /\ ctx' = [ctx EXCEPT ![s].perf_start = now]
    /\ CallNext(s, "Performance")
    /\ logged' = <<>>
    /\ UNCHANGED <<uuids, workload, ghost, requests_per_minute, DEBUG, requests, now, issued, req,
                   response, exc, rlLog>>

\* PerformanceMiddleware.dispatch from the await to its return
PerformanceAfter(s) ==
    /\ Running(s, "Performance", "out")
    /\ LET process_time == now - ctx[s].perf_start
       IN  IF exc[s] = NoExc
           THEN /\ response' = [response EXCEPT ![s] =
                       SetHeader(response[s], "X-Response-Time", FmtTime(process_time))]
                /\ logged' = IF process_time > SLOW_REQUEST_THRESHOLD
                              THEN <<LogEntry("WARNING", "Slow request")>>
                              ELSE <<>>
                /\ Return(s, "Performance", "after")
           ELSE /\ logged' = <<>>
                /\ response' = response
                /\ Return(s, "Performance", "raise")
    /\ UNCHANGED <<uuids, workload, ghost, requests_per_minute, DEBUG, requests, now, issued, req, ctx,
                   exc, rlLog>>

\* the route handler, with the framework's own handling of HTTPException,
\* which turns it into a response before it reaches an interceptor
HandlerResponse(outcome, request_id) ==
    IF outcome.kind = "return"
    THEN JSONResponse(200, [request_id |-> request_id], "handler")
    ELSE JSONResponse(500, [detail |-> "This is a simulated error"], "handler")

Terminal(s) ==
    /\ phase[s] = "in"
    /\ at[s] = Depth + 1
    /\ \E outcome \in OutcomeInputs :
         IF outcome.kind = "raise"
         THEN /\ exc' = [exc EXCEPT ![s] = outcome.message]
              /\ ghost' = [ghost EXCEPT ![s].raised = outcome.message,
                                        ![s].raisedBy = "handler"]
              /\ response' = response
         ELSE /\ response' = [response EXCEPT ![s] =
                     HandlerResponse(outcome, ctx[s].state_request_id)]
              /\ UNCHANGED <<exc, ghost>>
    /\ \E delay \in DelayInputs :
         /\ now + delay <= MaxTime
         /\ now' = now + delay
    /\ at' = [at EXCEPT ![s] = at[s] - 1]
    /\ phase' = [phase EXCEPT ![s] = "out"]
    /\ trace' = [trace EXCEPT ![s] = Append(trace[s], Event("handler", "call"))]
    /\ logged' = <<>>
    /\ UNCHANGED <<uuids, workload, requests_per_minute, DEBUG, requests, issued, req,
                   ctx, rlLog>>

\* the response (or the exception) has left the chain; the request is over
Finish(s) ==
    /\ phase[s] = "out"
    /\ at[s] = 0
    /\ phase' = [phase EXCEPT ![s] = "idle"]
    /\ req' = [req EXCEPT ![s] = NoRequest]
    /\ ctx' = [ctx EXCEPT ![s] = NoContext]
    /\ response' = [response EXCEPT ![s] = NoResponse]
    /\ exc' = [exc EXCEPT ![s] = NoExc]
    /\ trace' = [trace EXCEPT ![s] = <<>>]
    /\ ghost' = [ghost EXCEPT ![s] = NoGhost]
    /\ logged' = <<>>
    /\ UNCHANGED <<uuids, workload, requests_per_minute, DEBUG, requests, now, issued, at, rlLog>>

Next ==
    \/ Tick
    \/ \E s \in Slots :
         \/ Arrive(s)
         \/ LoggingBefore(s)
         \/ RateLimitingBefore(s)
         \/ AuthenticationBefore(s)
         \/ ErrorHandlingBefore(s)
         \/ SecurityBefore(s)
         \/ RequestValidationBefore(s)
         \/ PerformanceBefore(s)
         \/ Terminal(s)
         \/ PerformanceAfter(s)
         \/ RequestValidationAfter(s)
         \/ SecurityAfter(s)
         \/ ErrorHandlingAfter(s)
         \/ AuthenticationAfter(s)
         \/ RateLimitingAfter(s)
         \/ LoggingAfter(s)
         \/ Finish(s)

Spec == Init /\ [][Next]_vars

\* the steps the event loop takes for the request in slot s
Progress(s) ==
    \/ LoggingBefore(s) \/ RateLimitingBefore(s) \/ AuthenticationBefore(s)
    \/ ErrorHandlingBefore(s) \/ SecurityBefore(s) \/ RequestValidationBefore(s)
    \/ PerformanceBefore(s) \/ Terminal(s) \/ PerformanceAfter(s)
    \/ RequestValidationAfter(s) \/ SecurityAfter(s) \/ ErrorHandlingAfter(s)
    \/ AuthenticationAfter(s) \/ RateLimitingAfter(s) \/ LoggingAfter(s) \/ Finish(s)

\* the event loop runs every coroutine that is ready, and time passes;
\* nothing obliges a client to send another request
SpecLive ==
    /\ Init /\ [][Next]_vars
    /\ WF_vars(Tick)
    /\ \A s \in Slots : WF_vars(Progress(s))

\* the same pipeline around a rate limiter constructed with an argument that
\* is not a positive ceiling; the requests are plain and come one at a time
InitMisconfigured ==
    /\ workload = "misconfigured"
    /\ requests_per_minute \in {RateLimitingInit(arg) : arg \in NonPositiveLimits}
    /\ DEBUG = FALSE
    /\ requests = [k \in {} |-> <<>>]
    /\ now = 0
    /\ issued = 0
    /\ phase = [s \in Slots |-> "idle"]
    /\ at = [s \in Slots |-> 0]
    /\ req = [s \in Slots |-> NoRequest]
    /\ ctx = [s \in Slots |-> NoContext]
    /\ response = [s \in Slots |-> NoResponse]
    /\ exc = [s \in Slots |-> NoExc]
    /\ trace = [s \in Slots |-> <<>>]
    /\ ghost = [s \in Slots |-> NoGhost]
    /\ logged = <<>>
    /\ rlLog = <<>>
    /\ uuids = 0

SpecMisconfigured == InitMisconfigured /\ [][Next]_vars

(* ====================== properties of the pipeline ===================== *)
Finished(s) == phase[s] = "out" /\ at[s] = 0
Called(s, m) == \E i \in 1..Len(trace[s]) : trace[s][i][1] = m
Decisions == 1..Len(rlLog)
AdmittedDecisions == {i \in Decisions : rlLog[i].admitted}
\* the admitted requests of decision i's client that came no later than it
\* and less than WINDOW seconds before it
InWindowOf(i) ==
    {j \in AdmittedDecisions :
        /\ rlLog[j].key = rlLog[i].key
        /\ rlLog[j].time <= rlLog[i].time
        /\ rlLog[i].time - rlLog[j].time < WINDOW}
Count(lst, t) == Cardinality({i \in 1..Len(lst) : lst[i] = t})

\* C1: for every client, the admitted requests whose arrival times lie in
\* one window of 60 seconds (any set of them less than 60 seconds apart,
\* which is the window ending at the latest of them) never number more
\* than requests_per_minute.
C1_WindowNeverExceeded ==
    \A i \in AdmittedDecisions : Cardinality(InWindowOf(i)) <= requests_per_minute

\* C1 witness: a client used its whole budget, was rejected, and was
\* admitted again once the window had moved past its first request.
C1_Witness ==
    \E i, j, k \in Decisions :
        /\ i < j /\ j < k
        /\ rlLog[i].key = rlLog[j].key /\ rlLog[j].key = rlLog[k].key
        /\ rlLog[i].admitted /\ ~rlLog[j].admitted /\ rlLog[k].admitted
        /\ Cardinality(InWindowOf(i)) = requests_per_minute
        /\ rlLog[k].time - rlLog[i].time >= WINDOW

\* C2: the limit check of a request sees every earlier admission of its
\* client that is still inside the window: the count it compares with the
\* limit is the number of requests admitted before it less than 60 seconds
\* earlier, whatever the interleaving.  So of two requests in flight
\* together when one slot remains, the second sees the slot taken.
C2_CheckSeesEveryAdmission ==
    \A i \in Decisions :
        rlLog[i].seen =
            Cardinality({j \in AdmittedDecisions :
                            /\ j < i
                            /\ rlLog[j].key = rlLog[i].key
                            /\ rlLog[i].time - rlLog[j].time < WINDOW})

\* C2 witness: two requests of one client are in flight together, both past
\* the rate limiter; the first took the last slot, the second was rejected.
C2_Witness ==
    \E s, t \in Slots :
        /\ s # t
        /\ ghost[s].rl # 0 /\ ghost[t].rl = ghost[s].rl + 1
        /\ rlLog[ghost[s].rl].key = rlLog[ghost[t].rl].key
        /\ rlLog[ghost[s].rl].time = rlLog[ghost[t].rl].time
        /\ rlLog[ghost[s].rl].seen = requests_per_minute - 1
        /\ rlLog[ghost[s].rl].admitted
        /\ ~rlLog[ghost[t].rl].admitted
        /\ phase[s] = "in" /\ phase[t] = "out"

\* C3: a rejected request leaves no timestamp: every recorded timestamp of a
\* client is the arrival time of an admitted request of that client, as
\* often as it is recorded; and a rejection changes nothing that a later
\* decision reads (the entries still inside the window at any later time).
C3_Recorded ==
    \A k \in DOMAIN requests :
        \A n \in 1..Len(requests[k]) :
            Count(requests[k], requests[k][n]) <=
                Cardinality({i \in AdmittedDecisions :
                                rlLog[i].key = k /\ rlLog[i].time = requests[k][n]})

C3_RejectionStep ==
    (Len(rlLog') = Len(rlLog) + 1 /\ ~rlLog'[Len(rlLog')].admitted)
        => LET k == rlLog'[Len(rlLog')].key
           IN  /\ k \in DOMAIN requests
               /\ \A t \in now..(MaxTime + WINDOW) :
                      Prune(requests'[k], t) = Prune(requests[k], t)
               /\ \A other \in DOMAIN requests \ {k} : requests'[other] = requests[other]

C3_RejectedLeavesNoTrace == []C3_Recorded /\ [][C3_RejectionStep]_vars

\* C3 witness: a client was rejected and admitted again exactly when its
\* oldest recorded request reached the age of 60 seconds.
C3_Witness ==
    \E i, j, k \in Decisions :
        /\ i < j /\ j < k
        /\ rlLog[i].key = rlLog[j].key /\ rlLog[j].key = rlLog[k].key
        /\ rlLog[i].admitted /\ ~rlLog[j].admitted /\ rlLog[k].admitted
        /\ rlLog[k].time - rlLog[i].time = WINDOW
        /\ rlLog[k].seen = requests_per_minute - 1
        /\ rlLog[k].key \in DOMAIN requests
        /\ requests[rlLog[k].key][Len(requests[rlLog[k].key])] = rlLog[k].time

DecisionOf(s) == rlLog[ghost[s].rl]
Rejected(s) == ghost[s].rl # 0 /\ ~DecisionOf(s).admitted
Admittee(s) == ghost[s].rl # 0 /\ DecisionOf(s).admitted
\* the number of decisions of decision i's client up to and including it
Rank(i) == Cardinality({j \in Decisions : j <= i /\ rlLog[j].key = rlLog[i].key})
FirstOf(i) == CHOOSE j \in Decisions : rlLog[j].key = rlLog[i].key /\ Rank(j) = 1
StoppedByValidation(s) ==
    response[s].producer = "RequestValidation" \/ ghost[s].raisedBy = "RequestValidation"

\* C4: a request the rate limiter rejects gets the 429 and nothing inside
\* the rate limiter runs for it (no inner interceptor, not the handler); of
\* the requests a client sends within one second, the first
\* requests_per_minute are admitted and reach the handler (unless request
\* validation stops them) and every further one is rejected.
C4_RejectionShortCircuits ==
    /\ \A s \in Slots :
          Rejected(s) =>
              /\ response[s].status = 429
              /\ response[s].producer = "RateLimiting"
              /\ \A n \in 1..Len(trace[s]) : trace[s][n][1] \in {"Logging", "RateLimiting"}
    /\ \A s \in Slots :
          (Admittee(s) /\ phase[s] = "out") =>
              Called(s, "handler") \/ StoppedByValidation(s)
    /\ \A i \in Decisions :
          rlLog[i].time - rlLog[FirstOf(i)].time < 1 =>
              (rlLog[i].admitted <=> Rank(i) <= requests_per_minute)

\* C4 witness: requests_per_minute = 3, four requests of one client at the
\* same second; three were admitted and the fourth has left the chain
\* with the 429.
C4_Witness ==
    /\ requests_per_minute = 3
    /\ Len(rlLog) = 4
    /\ \A i \in Decisions : rlLog[i].key = rlLog[1].key /\ rlLog[i].time = rlLog[1].time
    /\ \A i \in 1..3 : rlLog[i].admitted
    /\ \E s \in Slots :
          /\ Finished(s) /\ ghost[s].rl = 4
          /\ response[s].status = 429
          /\ ~Called(s, "handler")

\* C5: a request whose content-length is a number above MAX_CONTENT_LENGTH
\* gets the 413 of RequestValidationMiddleware, and neither
\* PerformanceMiddleware nor the handler runs for it; a request without
\* content-length, or with a number not above the ceiling, is passed onward.
C5_OversizeStopsAtValidation ==
    \A s \in Slots :
        Called(s, "RequestValidation") =>
            LET h == req[s].content_length
            IN  /\ (h.present /\ ~IntRaises(h.value) /\ IntOf(h.value) > MAX_CONTENT_LENGTH)
                       => /\ response[s].status = 413
                          /\ response[s].producer = "RequestValidation"
                          /\ ~Called(s, "Performance")
                          /\ ~Called(s, "handler")
                /\ (~h.present \/ (~IntRaises(h.value) /\ IntOf(h.value) <= MAX_CONTENT_LENGTH))
                       => \/ Called(s, "Performance")
                          \/ (phase[s] = "in" /\ Chain[at[s]] = "Performance")

\* C5 witness: a request declaring one byte more than the ceiling has left
\* the chain with the 413, and the handler was not called.
C5_Witness ==
    \E s \in Slots :
        /\ Finished(s)
        /\ req[s].content_length = [present |-> TRUE, value |-> AboveCeiling]
        /\ response[s].status = 413
        /\ ~Called(s, "handler")

\* C6: when the handler raises an exception nothing handles, the client
\* gets status 500 with detail "Internal server error"; the body carries
\* the exception's message when DEBUG is true and "Something went wrong",
\* whatever the message, when it is false.
C6_FaultBecomes500 ==
    \A s \in Slots :
        (Finished(s) /\ ghost[s].raisedBy = "handler") =>
            /\ exc[s] = NoExc
            /\ response[s].status = 500
            /\ response[s].body =
                   [detail |-> "Internal server error",
                    error |-> IF DEBUG THEN ghost[s].raised ELSE "Something went wrong"]

\* C6 witness: with DEBUG false, the handler raised "db down" and the
\* client got the 500 with the generic text.
C6_Witness ==
    \E s \in Slots :
        /\ Finished(s)
        /\ ~DEBUG
        /\ ghost[s].raisedBy = "handler" /\ ghost[s].raised = "db down"
        /\ response[s].status = 500
        /\ response[s].body.error = "Something went wrong"

HasHeader(r, name, value) == name \in DOMAIN r.headers /\ r.headers[name] = value
HasSecurityHeaders(r) ==
    \A n \in 1..Len(SecurityHeaders(DEBUG)) :
        HasHeader(r, SecurityHeaders(DEBUG)[n][1], SecurityHeaders(DEBUG)[n][2])
Delivered(s) == Finished(s) /\ exc[s] = NoExc

\* C7: every response the client receives carries the six security headers
\* with their fixed values, whichever element of the chain produced it.
C7_EveryResponseSecured ==
    \A s \in Slots : Delivered(s) => HasSecurityHeaders(response[s])

\* C8: every response the client receives carries X-Request-ID,
\* X-Process-Time and X-Response-Time, whichever element of the chain
\* produced it.
C8_EveryResponseTimed ==
    \A s \in Slots :
        Delivered(s) =>
            {"X-Request-ID", "X-Process-Time", "X-Response-Time"}
                \subseteq DOMAIN response[s].headers

\* C9: ErrorHandlingMiddleware is the outermost interceptor (the first one
\* a request enters), and no exception leaves the chain.
C9_TranslatorOutermost ==
    \A s \in Slots :
        /\ trace[s] # <<>> => trace[s][1][1] = "ErrorHandling"
        /\ Finished(s) => exc[s] = NoExc

Reverse(seq) == [i \in 1..Len(seq) |-> seq[Len(seq) + 1 - i]]
IsPrefix(a, b) == Len(a) <= Len(b) /\ SubSeq(b, 1, Len(a)) = a
\* the interceptors whose step `step` is in the trace, in order
RECURSIVE Steps(_, _)
Steps(tr, step) ==
    IF tr = <<>> THEN <<>>
    ELSE IF Head(tr)[2] = step
         THEN <<Head(tr)[1]>> \o Steps(Tail(tr), step)
         ELSE Steps(Tail(tr), step)
\* nothing has cut the request short: no interceptor returned without
\* calling onward and nothing raised
Unbroken(s) ==
    /\ response[s].producer \in {"nobody", "handler"}
    /\ ghost[s].raisedBy = "nobody"

\* C10 as claimed: the interceptors run their "before" code in registration
\* order and, for a request that went all the way, their "after" code in
\* the reverse of it.
C10_RegistrationOrder ==
    \A s \in Slots :
        Unbroken(s) =>
            /\ IsPrefix(Steps(trace[s], "before"), Registered)
            /\ IsPrefix(Steps(trace[s], "after"), Reverse(Registered))

\* C10 as amended: for a request that nothing cuts short, the interceptors
\* run their "before" code in the reverse of the registration order (the
\* last registered is outermost, the first registered is nearest the
\* handler) and their "after" code in registration order; when the
\* response leaves the chain each of them has run both.
C10_ReverseRegistrationOrder ==
    \A s \in Slots :
        Unbroken(s) =>
            /\ IsPrefix(Steps(trace[s], "before"), Reverse(Registered))
            /\ IsPrefix(Steps(trace[s], "after"), Registered)
            /\ Finished(s) =>
                  /\ Steps(trace[s], "before") = Reverse(Registered)
                  /\ Steps(trace[s], "after") = Registered
                  /\ Called(s, "handler")

\* C10 witness: a response of the handler has left the chain after all
\* seven interceptors ran before and after it.
C10_Witness ==
    \E s \in Slots :
        /\ Finished(s) /\ Unbroken(s)
        /\ response[s].status = 200
        /\ Len(Steps(trace[s], "before")) = Len(Registered)
        /\ Len(Steps(trace[s], "after")) = Len(Registered)
        /\ trace[s][1] = Event("Logging", "before")
        /\ trace[s][Len(trace[s])] = Event("Logging", "after")

\* the number of times LoggingMiddleware generated an id for the request
Generated(s) ==
    Cardinality({n \in 1..Len(trace[s]) : trace[s][n] = Event("Logging", "before")})

\* C11: for a request that reaches the handler the correlation id was
\* generated exactly once and is in request.state when the handler runs;
\* what the handler reads there is the X-Request-ID header of the response
\* to that request; and two requests in flight together never hold the
\* same id, so neither can get the other's.
C11_HandlerSeesOwnId ==
    /\ \A s \in Slots :
          (Called(s, "handler") \/ (phase[s] = "in" /\ at[s] = Depth + 1)) =>
              /\ Generated(s) = 1
              /\ ctx[s].state_request_id # NoId
              /\ ctx[s].state_request_id = ctx[s].request_id
    /\ \A s \in Slots :
          (Delivered(s) /\ response[s].producer = "handler" /\ response[s].status = 200) =>
              HasHeader(response[s], "X-Request-ID", response[s].body.request_id)
    /\ \A s \in Slots :
          (Delivered(s) /\ Called(s, "handler")) =>
              HasHeader(response[s], "X-Request-ID", ctx[s].state_request_id)
    /\ \A s, t \in Slots :
          (s # t /\ Generated(s) = 1 /\ Generated(t) = 1) =>
              ctx[s].state_request_id # ctx[t].state_request_id

\* C11 witness: two requests are past the handler together, the one that
\* arrived second overtook the first, and the response delivered for it
\* carries in X-Request-ID the id its handler read.
C11_Witness ==
    \E s, t \in Slots :
        /\ s # t
        /\ Delivered(s) /\ response[s].status = 200
        /\ Called(t, "handler") /\ phase[t] = "out" /\ at[t] > 0
        /\ ctx[s].state_request_id = Uuid(2) /\ ctx[t].state_request_id = Uuid(1)
        /\ response[s].body.request_id = Uuid(2)
        /\ HasHeader(response[s], "X-Request-ID", Uuid(2))

\* C12: a rate limiter whose ceiling is not a positive integer never
\* processes a request: constructing it fails, so it takes no admission
\* decision, neither an admission nor a rejection.
C12_NonPositiveNeverServes ==
    requests_per_minute < 1 => rlLog = <<>>

\* the reference rule: the recorded timestamps of a client that are less
\* than WINDOW seconds old at time t
Fresh(recorded, t) == {n \in 1..Len(recorded) : t - recorded[n] < WINDOW}

\* C13: every decision of the rate limiter (a positive ceiling being
\* configured) is the sliding-window rule: the request at time now is
\* admitted if and only if fewer than requests_per_minute recorded
\* timestamps t of its client satisfy now - t < 60, and it gets the 429
\* exactly when it is not admitted.
C13_DecisionStep ==
    Len(rlLog') = Len(rlLog) + 1 =>
        LET d == rlLog'[Len(rlLog')]
            recorded == IF d.key \in DOMAIN requests THEN requests[d.key] ELSE <<>>
        IN  /\ d.time = now
            /\ d.admitted <=> Cardinality(Fresh(recorded, now)) < requests_per_minute
            /\ \A s \in Slots :
                   ghost'[s].rl = Len(rlLog') =>
                       (d.admitted <=> response'[s].status # 429)

C13_MatchesSlidingWindow == [][C13_DecisionStep]_vars

\* C13 witness: with a ceiling of 1 a client was admitted, then rejected
\* 30 seconds later (its timestamp still counted), then admitted as soon
\* as that timestamp was 60 seconds old.
C13_Witness ==
    /\ requests_per_minute = 1
    /\ \E i, j, k \in Decisions :
          /\ rlLog[i].key = rlLog[j].key /\ rlLog[j].key = rlLog[k].key
          /\ rlLog[i].admitted /\ rlLog[i].seen = 0
          /\ ~rlLog[j].admitted /\ rlLog[j].time = rlLog[i].time + TickStep
          /\ rlLog[j].seen = 1
          /\ rlLog[k].admitted /\ rlLog[k].time = rlLog[i].time + WINDOW
          /\ rlLog[k].seen = 0

\* the public areas: the root page and everything under one of the other
\* prefixes of PUBLIC_PATHS
InPublicArea(path) ==
    \/ path = <<"/">>
    \/ \E i \in 1..Len(PUBLIC_PATHS) :
          PUBLIC_PATHS[i] # <<"/">> /\ StartsWith(path, PUBLIC_PATHS[i])
\* AuthenticationMiddleware has just run its code before call_next for the
\* request in slot s, the only one in flight (the log holds that step's entries)
JustAuthenticated(s) ==
    /\ InFlight = {s}
    /\ phase[s] = "in" /\ at[s] = Index("Authentication") + 1
    /\ trace[s][Len(trace[s])] = Event("Authentication", "before")

\* C14: with the shipped PUBLIC_PATHS, AuthenticationMiddleware logs the
\* missing-credential entry for a request outside the public areas that
\* carries no authorization header, and logs no such entry for a request
\* to a public path.
C14_MissingCredentialLogged ==
    \A s \in Slots :
        JustAuthenticated(s) =>
            IF InPublicArea(req[s].path)
            THEN LogEntry("INFO", "No auth header") \notin {logged[n] : n \in 1..Len(logged)}
            ELSE ~Truthy(req[s].authorization) =>
                     LogEntry("INFO", "No auth header") \in {logged[n] : n \in 1..Len(logged)}

PassThrough == {"Performance", "Security", "Authentication"}
\* the element of the chain that call_next of interceptor m enters
Inner(m) == IF Index(m) = Depth THEN "handler" ELSE Chain[Index(m) + 1]
\* the positions in the trace of m's code before call_next
Entries(s, m) == {n \in 1..Len(trace[s]) : trace[s][n] = Event(m, "before")}
\* m called onward: the step after its "before" code is the inner element's
CalledOnward(s, m) ==
    \A n \in Entries(s, m) :
        IF n = Len(trace[s])
        THEN phase[s] = "in" /\ at[s] = Index(m) + 1
        ELSE trace[s][n + 1][1] = Inner(m)

C15_Once ==
    \A s \in Slots :
        /\ \A m \in PassThrough :
              /\ Cardinality(Entries(s, m)) <= 1
              /\ CalledOnward(s, m)
              /\ response[s].producer # m
        /\ (phase[s] = "out" /\ ~Called(s, "handler") /\ ghost[s].raisedBy = "nobody") =>
              /\ response[s].producer \in {"RateLimiting", "RequestValidation"}
              /\ at[s] = Index(response[s].producer) - 1 =>
                     response[s].status =
                         IF response[s].producer = "RateLimiting" THEN 429 ELSE 413

C15_ReturnStep ==
    \A s \in Slots : \A m \in PassThrough :
        (Running(s, m, "out") /\ at'[s] = at[s] - 1) =>
            /\ exc'[s] = exc[s]
            /\ response'[s].status = response[s].status
            /\ response'[s].body = response[s].body
            /\ response'[s].producer = response[s].producer
            /\ \A h \in DOMAIN response[s].headers :
                   h \in DOMAIN response'[s].headers

\* C15: PerformanceMiddleware, SecurityMiddleware and
\* AuthenticationMiddleware call onward exactly once for every request
\* that reaches them and hand back what the inner chain gave them, status
\* and body unchanged, with headers only added (an inner exception is
\* passed on as it is); a response made without the handler having been
\* called is the 429 of RateLimitingMiddleware or the 413 of
\* RequestValidationMiddleware.
C15_PassThrough == []C15_Once /\ [][C15_ReturnStep]_vars

\* C15 witness: the handler's HTTPException response (status 500) reached
\* the client through the three interceptors with its status, the
\* security headers and X-Response-Time added on the way.
C15_Witness ==
    \E s \in Slots :
        /\ Delivered(s)
        /\ response[s].producer = "handler" /\ response[s].status = 500
        /\ \A m \in PassThrough : Cardinality(Entries(s, m)) = 1
        /\ HasSecurityHeaders(response[s])
        /\ "X-Response-Time" \in DOMAIN response[s].headers

\* C16: an unhandled fault raised for a request passes through
\* LoggingMiddleware as an exception: LoggingMiddleware takes its except
\* branch (one ERROR entry, the fault re-raised) and neither logs the
\* completion nor sets its response headers for that request, and the
\* client gets the 500 that ErrorHandlingMiddleware makes of the fault.
C16_FaultPassesLogging ==
    \A s \in Slots :
        (Finished(s) /\ ghost[s].raisedBy # "nobody") =>
            /\ Cardinality({n \in 1..Len(trace[s]) :
                                trace[s][n] = Event("Logging", "except")}) = 1
            /\ \A n \in 1..Len(trace[s]) : trace[s][n] # Event("Logging", "after")
            /\ "X-Request-ID" \notin DOMAIN response[s].headers
            /\ "X-Process-Time" \notin DOMAIN response[s].headers
            /\ response[s].status = 500
            /\ response[s].producer = "ErrorHandling"

\* the earlier admissions of decision i's own client still in its window
OwnBefore(i) ==
    {j \in AdmittedDecisions :
        j < i /\ rlLog[j].key = rlLog[i].key /\ rlLog[i].time - rlLog[j].time < WINDOW}

C17_OwnHistoryOnly ==
    /\ \A i \in Decisions :
          rlLog[i].admitted <=> Cardinality(OwnBefore(i)) < requests_per_minute
    /\ \A s \in Slots :
          Running(s, "RateLimiting", "in") => ENABLED RateLimitingBefore(s)

C17_FrameStep ==
    Len(rlLog') = Len(rlLog) + 1 =>
        LET k == rlLog'[Len(rlLog')].key
        IN  /\ DOMAIN requests' = DOMAIN requests \cup {k}
            /\ \A other \in DOMAIN requests \ {k} : requests'[other] = requests[other]

\* C17: a decision of the rate limiter for one client changes the
\* recorded list of no other client (no key is added or removed but the
\* client's own), so each decision depends on the earlier admissions of
\* the same client only; and a request that has reached the rate limiter
\* can always take its decision, whatever the other requests are doing.
C17_ClientsIndependent == []C17_OwnHistoryOnly /\ [][C17_FrameStep]_vars

\* C17 witness: with a ceiling of 1, one client was admitted and then
\* rejected, and after that rejection another client was admitted at the
\* same second; both lists hold their one timestamp.
C17_Witness ==
    /\ requests_per_minute = 1
    /\ \E i, j, k \in Decisions :
          /\ i < j /\ j < k
          /\ rlLog[i].key = rlLog[j].key /\ rlLog[k].key # rlLog[i].key
          /\ rlLog[i].admitted /\ ~rlLog[j].admitted /\ rlLog[k].admitted
          /\ rlLog[k].time = rlLog[i].time
          /\ DOMAIN requests = {rlLog[i].key, rlLog[k].key}
          /\ requests[rlLog[i].key] = <<rlLog[i].time>>
          /\ requests[rlLog[k].key] = <<rlLog[k].time>>

\* the earlier admissions, still in decision i's window, of requests that
\* had a client address or not as decision i's request
Pooled(i) ==
    {j \in AdmittedDecisions :
        /\ j < i
        /\ (rlLog[j].client = NoClient) <=> (rlLog[i].client = NoClient)
        /\ rlLog[i].client # NoClient => rlLog[j].client = rlLog[i].client
        /\ rlLog[i].time - rlLog[j].time < WINDOW}

\* C18: every request without a client address is counted under the key
\* "unknown": it is rejected exactly when requests_per_minute requests
\* without address were admitted in the last 60 seconds, whoever sent
\* them; a request with an address is counted under that address and is
\* not affected by them.
C18_UnknownShareOneBudget ==
    /\ \A i \in Decisions :
          /\ rlLog[i].client = NoClient <=> rlLog[i].key = "unknown"
          /\ rlLog[i].client # NoClient => rlLog[i].key = rlLog[i].client
          /\ rlLog[i].admitted <=> Cardinality(Pooled(i)) < requests_per_minute
    /\ \A s \in Slots :
          (Rejected(s) /\ DecisionOf(s).client = NoClient /\ phase[s] = "out") =>
              response[s].status = 429
    /\ DOMAIN requests \subseteq {ClientKey(c) : c \in ClientAddrs}

\* C18 witness: with a ceiling of 1, a request without client address was
\* admitted, a second one was rejected at the same second and has its 429,
\* and a request with an address was admitted after that, still at the
\* same second: "unknown" and the address hold one timestamp each.
C18_Witness ==
    /\ requests_per_minute = 1
    /\ \E i, j, k \in Decisions :
          /\ i < j /\ j < k
          /\ rlLog[i].client = NoClient /\ rlLog[j].client = NoClient
          /\ rlLog[k].client # NoClient
          /\ rlLog[i].admitted /\ ~rlLog[j].admitted /\ rlLog[k].admitted
          /\ rlLog[k].time = rlLog[i].time
          /\ requests["unknown"] = <<rlLog[i].time>>
          /\ requests[rlLog[k].client] = <<rlLog[k].time>>
          /\ \E s \in Slots : ghost[s].rl = j /\ Finished(s) /\ response[s].status = 429

C19_Lists ==
    requests_per_minute >= 1 =>
        \A k \in DOMAIN requests :
            /\ Len(requests[k]) <= requests_per_minute
            /\ \A n \in 1..Len(requests[k]) : requests[k][n] <= now
            /\ \A m, n \in 1..Len(requests[k]) : m < n => requests[k][m] <= requests[k][n]

C19_Step ==
    /\ Len(rlLog') = Len(rlLog) + 1 =>
           LET k == rlLog'[Len(rlLog')].key
           IN  \A n \in 1..Len(requests'[k]) : now' - requests'[k][n] < WINDOW
    /\ requests' # requests =>
           /\ Len(rlLog') = Len(rlLog) + 1
           /\ \A k \in DOMAIN requests :
                  (k \notin DOMAIN requests' \/ requests'[k] # requests[k]) =>
                      k = rlLog'[Len(rlLog')].key

\* C19: with a positive ceiling N, every client's recorded list holds at
\* most N timestamps, none in the future, in non-decreasing order; right
\* after the rate limiter has decided a request of a client, every entry
\* of that client's list is less than 60 seconds old; and a list changes
\* only in the decision step of a request of its own client: the passing
\* of time alone removes nothing.
C19_ListsBoundedPrunedLazily == []C19_Lists /\ [][C19_Step]_vars

\* C19 witness: with a ceiling of 2 a client's list is full and its oldest
\* entry is 60 seconds old: stale, and still recorded because the client
\* has not sent a request since.
C19_Witness ==
    /\ requests_per_minute = 2
    /\ \E k \in DOMAIN requests :
          /\ Len(requests[k]) = 2
          /\ requests[k][1] < requests[k][2]
          /\ now - requests[k][1] >= WINDOW
          /\ now - requests[k][2] < WINDOW

\* the timestamp of the request in slot s is in its client's list
Recorded(s) ==
    /\ DecisionOf(s).key \in DOMAIN requests
    /\ \E n \in 1..Len(requests[DecisionOf(s).key]) :
          requests[DecisionOf(s).key][n] = DecisionOf(s).time

C20_StaysRecorded ==
    \A s \in Slots :
        (Admittee(s) /\ now - DecisionOf(s).time < WINDOW) => Recorded(s)

C20_InnerSteps ==
    \A s \in Slots :
        (Admittee(s) /\ Len(rlLog') = Len(rlLog)) => requests' = requests

\* C20: the timestamp of an admitted request is recorded before anything
\* inside the rate limiter runs, and no later step of that request (the
\* 413 of RequestValidationMiddleware, the 500 of ErrorHandlingMiddleware,
\* the handler, the way back out) changes the recorded lists: while it is
\* less than 60 seconds old it stays in its client's list whatever the
\* outcome of the request.
C20_AdmittedConsumesSlot == []C20_StaysRecorded /\ [][C20_InnerSteps]_vars

\* C20 witness: with a ceiling of 1, a request was admitted, refused with
\* 413 by RequestValidationMiddleware and has left the chain; its
\* timestamp fills its client's list.
C20_Witness ==
    /\ requests_per_minute = 1
    /\ \E s \in Slots :
          /\ Finished(s) /\ Admittee(s)
          /\ response[s].status = 413
          /\ ~Called(s, "handler")
          /\ requests[DecisionOf(s).key] = <<DecisionOf(s).time>>

\* every recorded timestamp of key k has reached the age of WINDOW seconds
Expired(k) ==
    /\ k \in DOMAIN requests
    /\ \A n \in 1..Len(requests[k]) : now - requests[k][n] >= WINDOW

\* no step takes a key out of the mapping
KeysOnlyAdded == [][DOMAIN requests \subseteq DOMAIN requests']_vars

\* C21: a client key whose recorded timestamps have all expired is
\* eventually removed from the rate limiter's mapping.
C21_ExpiredKeysRemoved ==
    \A k \in {ClientKey(c) : c \in ClientAddrs} :
        Expired(k) ~> (k \notin DOMAIN requests)

====
